---- MODULE Spec2Model ----
(***************************************************************************)
(* The habitat-operator controller (pkg/habitat/controller/controller.go)  *)
(* as a state machine.                                                     *)
(*                                                                         *)
(* The cluster (Deployments, ConfigMaps, Pods) is a key-value store.  Each *)
(* of the two informers serves its events to its own loop, one handler at  *)
(* a time, and the two loops run concurrently.  A handler is cut where it  *)
(* writes: an action of a loop is the code up to and including one write   *)
(* to the cluster, with the reads that lead to it.  The cluster's own      *)
(* controllers (Deployment controller, kubelet, garbage collector) and the *)
(* user are the environment.                                               *)
(*                                                                         *)
(* A pod's event waits in a queue, since the cluster moves on while it     *)
(* waits.  A ServiceGroup's event is an input of its handler: the resource *)
(* itself is read by nobody, and an event that could not have been sent    *)
(* (a second Added, a Deleted with no Added) is the event of a resource of *)
(* the same name in another namespace.                                     *)
(***************************************************************************)
EXTENDS Naturals, Sequences, FiniteSets, TLC

VARIABLES
    deployments,  \* Deployments: <<namespace, name>> -> object
    cms,          \* ConfigMaps: <<namespace, name>> -> object
    pods,         \* Pods of namespace default: name -> object
    podQ,         \* events of the Pod informer, oldest first
    sgPc,         \* where the ServiceGroup loop stands
    sgRun,        \* the handler the ServiceGroup loop runs / ran last
    podPc,        \* where the Pod loop stands
    podRun        \* the handler the Pod loop runs / ran last

cluster == <<deployments, cms, pods>>
vars == <<deployments, cms, pods, podQ, sgPc, sgRun, podPc, podRun>>

----------------------------------------------------------------------------
(* Bounds of the model.                                                    *)

MaxPods == 2      \* pod names are 1..MaxPods
MaxUID == 2       \* object identities are 1..MaxUID
MaxQueue == 1     \* events waiting in the Pod informer's queue
MaxCount == 2     \* the replica count of a group that asks for replicas

Groups == {"db"}
Namespaces == {"default", "testing"}
PodNames == 1 .. MaxPods
UIDs == 1 .. MaxUID
Counts == {0, MaxCount}
ServiceGroups == [ Name : Groups, Namespace : Namespaces, Count : Counts ]

----------------------------------------------------------------------------
(* Constants and pure functions of the controller.                         *)

NamespaceDefault == "default"
peerFile == "peer-watch-file"
PodRunning == "Running"

configMapName(sgName) == sgName \o "-peer-file"

newConfigMap(sgName, parentUID, ip) ==
    [ Name |-> configMapName(sgName),
      OwnerReferences |-> << [ Kind |-> "Deployment", Name |-> sgName, UID |-> parentUID ] >>,
      Data |-> (peerFile :> ip) ]

\* The labels of the Deployment's pod template.
TemplateLabels(sgName) == ("habitat" :> "true") @@ ("service-group" :> sgName)

NoLabels == [ k \in {} |-> "" ]

\* A Go map read: the zero value when the key is missing.
Label(pod, key) == IF key \in DOMAIN pod.Labels THEN pod.Labels[key] ELSE ""

\* The structural check of an incoming ServiceGroup.
validateCustomObject(sg) == sg.Name # "" /\ sg.Count >= 1

----------------------------------------------------------------------------
(* The cluster API.                                                        *)

Put(store, key, obj) == [ k \in DOMAIN store \cup {key} |-> IF k = key THEN obj ELSE store[k] ]
Remove(store, key) == [ k \in DOMAIN store \ {key} |-> store[k] ]

DeploymentKey(ns, name) == <<ns, name>>
ConfigMapKey(name) == <<NamespaceDefault, name>>

\* An identity no live object and no handler holds.
UsedUIDs ==
    { deployments[k].UID : k \in DOMAIN deployments }
      \cup { cms[k].OwnerReferences[1].UID : k \in DOMAIN cms }
      \cup (IF sgPc = "idle" THEN {} ELSE {sgRun.uid})
      \cup (IF podPc = "idle" THEN {} ELSE {podRun.uid})
FreshUIDs == UIDs \ UsedUIDs
NewUID == CHOOSE u \in FreshUIDs : \A v \in FreshUIDs : u <= v

RECURSIVE SortedSeq(_)
SortedSeq(S) ==
    IF S = {} THEN << >>
    ELSE LET m == CHOOSE x \in S : \A y \in S : x <= y
         IN  << m >> \o SortedSeq(S \ {m})

PodObject(p) == [ Name |-> p, Labels |-> pods[p].Labels,
                  Phase |-> pods[p].Phase, PodIP |-> pods[p].PodIP ]

\* Pods(NamespaceDefault).List with a field selector: the selected pods in
\* name order.
ListPods(selected) ==
    LET names == SortedSeq(selected)
    IN  [ i \in 1 .. Len(names) |-> PodObject(names[i]) ]

IsRunning(pod) == pod.Phase = PodRunning
ListRunning == ListPods({ p \in DOMAIN pods : IsRunning(PodObject(p)) })
ListRunningAt(ip) ==
    ListPods({ p \in DOMAIN pods : IsRunning(PodObject(p)) /\ pods[p].PodIP = ip })

----------------------------------------------------------------------------
(* The summaries the loops keep of the handler they run.                   *)

NoPod == [ Name |-> 0, Labels |-> NoLabels, Phase |-> "", PodIP |-> "" ]
NoSG == [ Name |-> "", Namespace |-> "", Count |-> 0 ]
NoPrev == [ handler |-> "none", ev |-> NoPod, res |-> "none" ]

\* handler: the handler; ev: its event's object; pod: the argument of
\* writeLeaderIP; cur: currentLeaderIP as the handler read it first; uid:
\* d.UID as read; res: how it ended; new: the pod whose IP it wrote; fault: an API call failed for no reason of the
\* cluster's state; intf: something else happened while it ran; prev: the
\* handler before it, when nothing else happened since that one began.
\* A loop's summary stands until something else happens.
PodIdle == [ handler |-> "none", ev |-> NoPod, pod |-> NoPod, cur |-> "", uid |-> 0,
             res |-> "none", new |-> NoPod, fault |-> FALSE, intf |-> FALSE,
             prev |-> NoPrev ]
SGIdle == [ handler |-> "none", ev |-> NoSG, uid |-> 0,
            res |-> "none", fault |-> FALSE, intf |-> FALSE ]

Alive == podPc # "panic"

\* Something happens that is not a step of the Pod loop.
DisturbPod ==
    podRun' = IF podPc = "idle" THEN PodIdle
              ELSE [ PodIdle EXCEPT !.pod = podRun.pod, !.uid = podRun.uid,
                                    !.intf = TRUE ]
\* Something happens that is not a step of the ServiceGroup loop.
DisturbSG ==
    sgRun' = IF sgPc = "idle" THEN SGIdle
             ELSE [ SGIdle EXCEPT !.ev = sgRun.ev, !.uid = sgRun.uid, !.intf = TRUE ]

\* A handler of the Pod loop returns.
PodReturn(run, res) ==
    /\ podPc' = "idle"
    /\ podRun' = IF run.intf THEN PodIdle
                 ELSE [ run EXCEPT !.res = res, !.pod = NoPod ]
\* A handler of the ServiceGroup loop returns.
SGReturn(run, res) ==
    /\ sgPc' = "idle"
    /\ sgRun' = IF run.intf THEN SGIdle ELSE [ run EXCEPT !.res = res ]

\* What the Pod loop remembers of the handler that ran before this one.
PrevOf(run) ==
    IF run.handler # "none" /\ ~run.intf /\ ~run.fault
    THEN [ handler |-> run.handler, ev |-> run.ev, res |-> run.res ]
    ELSE NoPrev

BeginPod(handler, ev) ==
    [ PodIdle EXCEPT !.handler = handler, !.ev = ev, !.prev = PrevOf(podRun) ]
BeginSG(handler, ev) == [ SGIdle EXCEPT !.handler = handler, !.ev = ev ]

----------------------------------------------------------------------------
(* The ServiceGroup loop: onAdd, onUpdate, onDelete.                       *)

\* onAdd without validateCustomObject.
onAdd_unvalidated(sg) ==
    /\ Alive /\ DisturbPod /\ sgPc = "idle"
    /\ LET run == BeginSG("onAdd", sg)
           key == DeploymentKey(NamespaceDefault, sg.Name)
       IN  \E fault \in BOOLEAN :
             IF fault \/ key \in DOMAIN deployments
             THEN /\ SGReturn([ run EXCEPT !.fault = fault ], "error")
                  /\ UNCHANGED <<deployments, cms>>
             ELSE /\ FreshUIDs # {}
                  /\ deployments' = Put(deployments, key,
                         [ Name |-> sg.Name, UID |-> NewUID, Replicas |-> sg.Count,
                           For |-> sg.Namespace ])
                  /\ sgPc' = "createConfigMap"
                  /\ sgRun' = [ run EXCEPT !.uid = NewUID ]
                  /\ UNCHANGED cms
    /\ UNCHANGED <<pods, podQ, podPc>>

\* onAdd up to and including Deployments(NamespaceDefault).Create.  For, the
\* namespace of the ServiceGroup the Deployment was made for, is bookkeeping:
\* the code does not record it.
onAdd(sg) ==
    /\ Alive /\ DisturbPod /\ sgPc = "idle"
    /\ LET run == BeginSG("onAdd", sg)
           key == DeploymentKey(NamespaceDefault, sg.Name)
       IN  IF ~validateCustomObject(sg)
           THEN /\ SGReturn(run, "invalid")
                /\ UNCHANGED <<deployments, cms>>
           ELSE \E fault \in BOOLEAN :
                  IF fault \/ key \in DOMAIN deployments
                  THEN /\ SGReturn([ run EXCEPT !.fault = fault ], "error")
                       /\ UNCHANGED <<deployments, cms>>
                  ELSE /\ FreshUIDs # {}
                       /\ deployments' = Put(deployments, key,
                              [ Name |-> sg.Name, UID |-> NewUID, Replicas |-> sg.Count,
                                For |-> sg.Namespace ])
                       /\ sgPc' = "createConfigMap"
                       /\ sgRun' = [ run EXCEPT !.uid = NewUID ]
                       /\ UNCHANGED cms
    /\ UNCHANGED <<pods, podQ, podPc>>

\* onAdd deleting the Deployment it created when ConfigMaps.Create fails.
onAdd_createConfigMap_rollback ==
    /\ Alive /\ DisturbPod /\ sgPc = "createConfigMap"
    /\ LET sg == sgRun.ev
           configMap == newConfigMap(sg.Name, sgRun.uid, "")
           key == ConfigMapKey(configMap.Name)
       IN  \E fault \in BOOLEAN :
             IF fault \/ key \in DOMAIN cms
             THEN /\ SGReturn([ sgRun EXCEPT !.fault = fault ], "error")
                  /\ deployments' = Remove(deployments, DeploymentKey(NamespaceDefault, sg.Name))
                  /\ UNCHANGED cms
             ELSE /\ cms' = Put(cms, key, configMap)
                  /\ SGReturn(sgRun, "created")
                  /\ UNCHANGED deployments
    /\ UNCHANGED <<pods, podQ, podPc>>

\* onAdd from newConfigMap to its end: ConfigMaps(NamespaceDefault).Create.
onAdd_createConfigMap ==
    /\ Alive /\ DisturbPod /\ sgPc = "createConfigMap"
    /\ LET sg == sgRun.ev
           configMap == newConfigMap(sg.Name, sgRun.uid, "")
           key == ConfigMapKey(configMap.Name)
       IN  \E fault \in BOOLEAN :
             IF fault \/ key \in DOMAIN cms
             THEN /\ SGReturn([ sgRun EXCEPT !.fault = fault ], "error")
                  /\ UNCHANGED cms
             ELSE /\ cms' = Put(cms, key, configMap)
                  /\ SGReturn(sgRun, "created")
    /\ UNCHANGED <<deployments, pods, podQ, podPc>>

\* onUpdate applying the new spec's count to the Deployment.
onUpdate_applies(oldObj, newObj) ==
    /\ Alive /\ DisturbPod /\ sgPc = "idle"
    /\ newObj.Name = oldObj.Name /\ newObj.Namespace = oldObj.Namespace
    /\ SGReturn(BeginSG("onUpdate", newObj), "logged")
    /\ LET key == DeploymentKey(NamespaceDefault, newObj.Name)
       IN  IF key \in DOMAIN deployments
           THEN deployments' = Put(deployments, key,
                                   [ deployments[key] EXCEPT !.Replicas = newObj.Count ])
           ELSE UNCHANGED deployments
    /\ UNCHANGED <<cms, pods, podQ, podPc>>

\* onUpdate: the event is logged.  newObj differs from oldObj after a change
\* of the spec and equals it in the resync's redelivery.
onUpdate(oldObj, newObj) ==
    /\ Alive /\ DisturbPod /\ sgPc = "idle"
    /\ newObj.Name = oldObj.Name /\ newObj.Namespace = oldObj.Namespace
    /\ SGReturn(BeginSG("onUpdate", newObj), "logged")
    /\ UNCHANGED <<cluster, podQ, podPc>>

\* onDelete deleting the group's ConfigMap with the Deployment.
onDelete_deletesRecord(sg) ==
    /\ Alive /\ DisturbPod /\ sgPc = "idle"
    /\ LET run == BeginSG("onDelete", sg)
           key == DeploymentKey(sg.Namespace, sg.Name)
       IN  \E fault \in BOOLEAN :
             IF fault \/ key \notin DOMAIN deployments
             THEN /\ SGReturn([ run EXCEPT !.fault = fault ], "error")
                  /\ UNCHANGED <<deployments, cms>>
             ELSE /\ deployments' = Remove(deployments, key)
                  /\ cms' = Remove(cms, ConfigMapKey(configMapName(sg.Name)))
                  /\ SGReturn(run, "deleted")
    /\ UNCHANGED <<pods, podQ, podPc>>

\* onDelete: Deployments(sg.Namespace).Delete, background propagation.
onDelete(sg) ==
    /\ Alive /\ DisturbPod /\ sgPc = "idle"
    /\ LET run == BeginSG("onDelete", sg)
           key == DeploymentKey(sg.Namespace, sg.Name)
       IN  \E fault \in BOOLEAN :
             IF fault \/ key \notin DOMAIN deployments
             THEN /\ SGReturn([ run EXCEPT !.fault = fault ], "error")
                  /\ UNCHANGED deployments
             ELSE /\ deployments' = Remove(deployments, key)
                  /\ SGReturn(run, "deleted")
    /\ UNCHANGED <<cms, pods, podQ, podPc>>

----------------------------------------------------------------------------
(* The Pod loop: onPodAdd, onPodUpdate, onPodDelete, writeLeaderIP.        *)

PodEvent(type, obj) == [ type |-> type, obj |-> obj ]

\* The API calls a handler reads the cluster with.  One of them may fail for
\* no reason of the cluster's state ("none": none does); the handler returns
\* at the first failure, so one failure is all a run can meet.
Reads == {"ConfigMaps.Get", "Pods.List", "Deployments.Get"}
Failures == {"none"} \cup Reads

Outcome(res, cur, uid, fault) == [ res |-> res, cur |-> cur, uid |-> uid, fault |-> fault ]

\* writeLeaderIP without the query for a Running pod at the leader's address.
writeLeaderIP_usurp(pod, fail) ==
    LET sgName == Label(pod, "service-group")
        key == ConfigMapKey(configMapName(sgName))
        ip == pod.PodIP
        dkey == DeploymentKey(NamespaceDefault, sgName)
    IN  IF fail = "ConfigMaps.Get" THEN Outcome("error", "", 0, TRUE)
        ELSE IF key \notin DOMAIN cms THEN Outcome("error", "", 0, FALSE)
        ELSE LET currentLeaderIP == cms[key].Data[peerFile]
             IN  IF currentLeaderIP # "" /\ ip = currentLeaderIP
                   THEN Outcome("same", currentLeaderIP, 0, FALSE)
                 ELSE IF fail = "Deployments.Get"
                   THEN Outcome("error", currentLeaderIP, 0, TRUE)
                 ELSE IF dkey \notin DOMAIN deployments
                   THEN Outcome("error", currentLeaderIP, 0, FALSE)
                 ELSE Outcome("update", currentLeaderIP, deployments[dkey].UID, FALSE)

\* writeLeaderIP taking every recorded leader for alive.
writeLeaderIP_keep(pod, fail) ==
    LET sgName == Label(pod, "service-group")
        key == ConfigMapKey(configMapName(sgName))
        ip == pod.PodIP
        dkey == DeploymentKey(NamespaceDefault, sgName)
    IN  IF fail = "ConfigMaps.Get" THEN Outcome("error", "", 0, TRUE)
        ELSE IF key \notin DOMAIN cms THEN Outcome("error", "", 0, FALSE)
        ELSE LET currentLeaderIP == cms[key].Data[peerFile]
             IN  IF currentLeaderIP # "" /\ ip = currentLeaderIP
                   THEN Outcome("same", currentLeaderIP, 0, FALSE)
                 ELSE IF currentLeaderIP # ""
                   THEN Outcome("alive", currentLeaderIP, 0, FALSE)
                 ELSE IF fail = "Deployments.Get"
                   THEN Outcome("error", currentLeaderIP, 0, TRUE)
                 ELSE IF dkey \notin DOMAIN deployments
                   THEN Outcome("error", currentLeaderIP, 0, FALSE)
                 ELSE Outcome("update", currentLeaderIP, deployments[dkey].UID, FALSE)

\* writeLeaderIP writing whatever the record holds.
writeLeaderIP_blind(pod, fail) ==
    LET sgName == Label(pod, "service-group")
        key == ConfigMapKey(configMapName(sgName))
        ip == pod.PodIP
        dkey == DeploymentKey(NamespaceDefault, sgName)
    IN  IF fail = "ConfigMaps.Get" THEN Outcome("error", "", 0, TRUE)
        ELSE IF key \notin DOMAIN cms THEN Outcome("error", "", 0, FALSE)
        ELSE LET currentLeaderIP == cms[key].Data[peerFile]
             IN  IF fail = "Deployments.Get"
                   THEN Outcome("error", currentLeaderIP, 0, TRUE)
                 ELSE IF dkey \notin DOMAIN deployments
                   THEN Outcome("error", currentLeaderIP, 0, FALSE)
                 ELSE Outcome("update", currentLeaderIP, deployments[dkey].UID, FALSE)

\* writeLeaderIP going on to the write when Deployments.Get finds nothing.
writeLeaderIP_ignoresNotFound(pod, fail) ==
    LET sgName == Label(pod, "service-group")
        key == ConfigMapKey(configMapName(sgName))
        ip == pod.PodIP
        dkey == DeploymentKey(NamespaceDefault, sgName)
    IN  IF fail = "ConfigMaps.Get" THEN Outcome("error", "", 0, TRUE)
        ELSE IF key \notin DOMAIN cms THEN Outcome("error", "", 0, FALSE)
        ELSE LET currentLeaderIP == cms[key].Data[peerFile]
             IN  IF currentLeaderIP # "" /\ ip = currentLeaderIP
                   THEN Outcome("same", currentLeaderIP, 0, FALSE)
                 ELSE IF currentLeaderIP # "" /\ fail = "Pods.List"
                   THEN Outcome("error", currentLeaderIP, 0, TRUE)
                 ELSE IF currentLeaderIP # "" /\ Len(ListRunningAt(currentLeaderIP)) > 0
                   THEN Outcome("alive", currentLeaderIP, 0, FALSE)
                 ELSE IF fail = "Deployments.Get"
                   THEN Outcome("error", currentLeaderIP, 0, TRUE)
                 ELSE IF dkey \notin DOMAIN deployments
                   THEN Outcome("update", currentLeaderIP, 0, FALSE)
                 ELSE Outcome("update", currentLeaderIP, deployments[dkey].UID, FALSE)

\* writeLeaderIP up to its write: "update" when it goes on to write, with the
\* leader it read and the UID of the Deployment it read.
writeLeaderIP(pod, fail) ==
    LET sgName == Label(pod, "service-group")
        key == ConfigMapKey(configMapName(sgName))
        ip == pod.PodIP
        dkey == DeploymentKey(NamespaceDefault, sgName)
    IN  IF fail = "ConfigMaps.Get" THEN Outcome("error", "", 0, TRUE)
        ELSE IF key \notin DOMAIN cms THEN Outcome("error", "", 0, FALSE)
        ELSE LET currentLeaderIP == cms[key].Data[peerFile]
             IN  IF currentLeaderIP # "" /\ ip = currentLeaderIP
                   THEN Outcome("same", currentLeaderIP, 0, FALSE)
                 ELSE IF currentLeaderIP # "" /\ fail = "Pods.List"
                   THEN Outcome("error", currentLeaderIP, 0, TRUE)
                 ELSE IF currentLeaderIP # "" /\ Len(ListRunningAt(currentLeaderIP)) > 0
                   THEN Outcome("alive", currentLeaderIP, 0, FALSE)
                 ELSE IF fail = "Deployments.Get"
                   THEN Outcome("error", currentLeaderIP, 0, TRUE)
                 ELSE IF dkey \notin DOMAIN deployments
                   THEN Outcome("error", currentLeaderIP, 0, FALSE)
                 ELSE Outcome("update", currentLeaderIP, deployments[dkey].UID, FALSE)

\* The handler goes on to the write, or returns.
Proceed(run, pod, out) ==
    IF out.res = "update"
    THEN /\ podPc' = "update"
         /\ podRun' = [ run EXCEPT !.pod = pod, !.uid = out.uid ]
    ELSE PodReturn([ run EXCEPT !.fault = out.fault ], out.res)

\* onPodAdd does nothing.
onPodAdd ==
    /\ Alive /\ DisturbSG /\ podPc = "idle"
    /\ podQ # << >> /\ Head(podQ).type = "Added"
    /\ podQ' = Tail(podQ)
    /\ PodReturn(BeginPod("onPodAdd", Head(podQ).obj), "ignored")
    /\ UNCHANGED <<cluster, sgPc>>

\* onPodUpdate called while another Pod handler runs.
onPodUpdate_concurrent ==
    /\ Alive /\ DisturbSG /\ podQ # << >> /\ Head(podQ).type = "Updated"
    /\ podQ' = Tail(podQ)
    /\ LET pod == Head(podQ).obj
           run == BeginPod("onPodUpdate", pod)
       IN  IF pod.Phase # PodRunning THEN PodReturn(run, "ignored")
           ELSE \E fail \in Failures :
                  LET out == writeLeaderIP(pod, fail)
                  IN  Proceed([ run EXCEPT !.cur = out.cur ], pod, out)
    /\ UNCHANGED <<cluster, sgPc>>

\* onPodUpdate, and the reads of writeLeaderIP.
onPodUpdate ==
    /\ Alive /\ DisturbSG /\ podPc = "idle"
    /\ podQ # << >> /\ Head(podQ).type = "Updated"
    /\ podQ' = Tail(podQ)
    /\ LET pod == Head(podQ).obj
           run == BeginPod("onPodUpdate", pod)
       IN  IF pod.Phase # PodRunning
           THEN PodReturn(run, "ignored")
           ELSE \E fail \in Failures :
                  LET out == writeLeaderIP(pod, fail)
                  IN  Proceed([ run EXCEPT !.cur = out.cur ], pod, out)
    /\ UNCHANGED <<cluster, sgPc>>

\* onPodDelete, and the reads of writeLeaderIP(&newLeader).  Indexing the
\* empty podList.Items panics, and the panic ends the process.
onPodDelete ==
    /\ Alive /\ DisturbSG /\ podPc = "idle"
    /\ podQ # << >> /\ Head(podQ).type = "Deleted"
    /\ podQ' = Tail(podQ)
    /\ LET pod == Head(podQ).obj
           run == BeginPod("onPodDelete", pod)
           exists == "service-group" \in DOMAIN pod.Labels
           key == ConfigMapKey(configMapName(Label(pod, "service-group")))
       IN  \E fail \in Failures :
             IF ~exists THEN PodReturn(run, "error")
             ELSE IF fail = "ConfigMaps.Get"
               THEN PodReturn([ run EXCEPT !.fault = TRUE ], "error")
             ELSE IF key \notin DOMAIN cms THEN PodReturn(run, "error")
             ELSE LET currentLeaderIP == cms[key].Data[peerFile]
                      deletedPodIP == pod.PodIP
                      r == [ run EXCEPT !.cur = currentLeaderIP ]
                      podList == ListRunning
                  IN  IF deletedPodIP # currentLeaderIP
                        THEN PodReturn(r, "ignored")
                      ELSE IF fail = "Pods.List"
                        THEN PodReturn([ r EXCEPT !.fault = TRUE ], "error")
                      ELSE IF Len(podList) = 0
                        THEN podPc' = "panic" /\ podRun' = [ r EXCEPT !.res = "panic" ]
                      ELSE Proceed(r, podList[1], writeLeaderIP(podList[1], fail))
    /\ UNCHANGED <<cluster, sgPc>>

\* The write of writeLeaderIP adding the address to the recorded one.
writeLeaderIP_update_appends ==
    /\ Alive /\ DisturbSG /\ podPc = "update"
    /\ LET sgName == Label(podRun.pod, "service-group")
           key == ConfigMapKey(configMapName(sgName))
       IN  \E fault \in BOOLEAN :
             IF fault \/ key \notin DOMAIN cms
             THEN /\ PodReturn([ podRun EXCEPT !.fault = fault ], "error")
                  /\ UNCHANGED cms
             ELSE /\ cms' = Put(cms, key,
                        newConfigMap(sgName, podRun.uid,
                                     cms[key].Data[peerFile] \o podRun.pod.PodIP))
                  /\ PodReturn([ podRun EXCEPT !.new = podRun.pod ], "wrote")
    /\ UNCHANGED <<deployments, pods, podQ, sgPc>>

\* writeLeaderIP: newConfigMap and ConfigMaps(NamespaceDefault).Update.
writeLeaderIP_update ==
    /\ Alive /\ DisturbSG /\ podPc = "update"
    /\ LET sgName == Label(podRun.pod, "service-group")
           updatedCM == newConfigMap(sgName, podRun.uid, podRun.pod.PodIP)
           key == ConfigMapKey(updatedCM.Name)
       IN  \E fault \in BOOLEAN :
             IF fault \/ key \notin DOMAIN cms
             THEN /\ PodReturn([ podRun EXCEPT !.fault = fault ], "error")
                  /\ UNCHANGED cms
             ELSE /\ cms' = Put(cms, key, updatedCM)
                  /\ PodReturn([ podRun EXCEPT !.new = podRun.pod ], "wrote")
    /\ UNCHANGED <<deployments, pods, podQ, sgPc>>

----------------------------------------------------------------------------
(* The environment: the Deployment controller, the kubelet, the garbage    *)
(* collector, the user and the informer's resync.                          *)

PodIP(p) == "10.0.0." \o ToString(p)

\* The Pod informer watches the pods labelled habitat=true.
Watched(pod) == Label(pod, "habitat") = "true"

Notify(type, pod) ==
    IF Watched(pod)
    THEN Len(podQ) < MaxQueue /\ podQ' = Append(podQ, PodEvent(type, pod))
    ELSE UNCHANGED podQ

\* The Deployment controller starts a pod from the template.
DeploymentCreatesPod(g, p) ==
    /\ Alive /\ DisturbPod /\ DisturbSG
    /\ p \notin DOMAIN pods
    /\ DeploymentKey(NamespaceDefault, g) \in DOMAIN deployments
    /\ Cardinality({ q \in DOMAIN pods : Label(pods[q], "service-group") = g
                                          /\ pods[q].Phase # "Failed" })
          < deployments[DeploymentKey(NamespaceDefault, g)].Replicas
    /\ pods' = Put(pods, p, [ Labels |-> TemplateLabels(g), Phase |-> "Pending", PodIP |-> "" ])
    /\ Notify("Added", PodObject(p)')
    /\ UNCHANGED <<deployments, cms, sgPc, podPc>>

\* A pod of no group runs in namespace default.
OtherPodRuns(p) ==
    /\ Alive /\ DisturbPod /\ DisturbSG
    /\ p \notin DOMAIN pods
    /\ pods' = Put(pods, p, [ Labels |-> NoLabels, Phase |-> PodRunning, PodIP |-> PodIP(p) ])
    /\ UNCHANGED <<deployments, cms, podQ, sgPc, podPc>>

\* The kubelet starts a pod of the template, which mounts the ConfigMap.
PodRuns(p) ==
    /\ Alive /\ DisturbPod /\ DisturbSG
    /\ p \in DOMAIN pods /\ pods[p].Phase = "Pending"
    /\ ConfigMapKey(configMapName(Label(pods[p], "service-group"))) \in DOMAIN cms
    /\ pods' = Put(pods, p, [ pods[p] EXCEPT !.Phase = PodRunning, !.PodIP = PodIP(p) ])
    /\ Notify("Updated", PodObject(p)')
    /\ UNCHANGED <<deployments, cms, sgPc, podPc>>

PodFails(p) ==
    /\ Alive /\ DisturbPod /\ DisturbSG
    /\ p \in DOMAIN pods /\ pods[p].Phase = PodRunning /\ Watched(pods[p])
    /\ pods' = Put(pods, p, [ pods[p] EXCEPT !.Phase = "Failed" ])
    /\ Notify("Updated", PodObject(p)')
    /\ UNCHANGED <<deployments, cms, sgPc, podPc>>

\* A pod is deleted: by the user, or by the cascade of its Deployment's deletion.
PodDeleted(p) ==
    /\ Alive /\ DisturbPod /\ DisturbSG
    /\ p \in DOMAIN pods
    /\ pods' = Remove(pods, p)
    /\ Notify("Deleted", PodObject(p))
    /\ UNCHANGED <<deployments, cms, sgPc, podPc>>

\* resyncPeriod: the informer redelivers a cached pod as an update.
PodResync(p) ==
    /\ Alive /\ DisturbSG
    /\ p \in DOMAIN pods /\ Watched(pods[p])
    /\ Notify("Updated", PodObject(p))
    /\ UNCHANGED <<cluster, sgPc, podPc, podRun>>

\* The garbage collector removes a ConfigMap whose owner is gone.
GarbageCollect(key) ==
    /\ Alive /\ DisturbPod /\ DisturbSG
    /\ key \in DOMAIN cms
    /\ LET owner == cms[key].OwnerReferences[1]
           dkey == DeploymentKey(NamespaceDefault, owner.Name)
       IN  ~(dkey \in DOMAIN deployments /\ deployments[dkey].UID = owner.UID)
    /\ cms' = Remove(cms, key)
    /\ UNCHANGED <<deployments, pods, podQ, sgPc, podPc>>

----------------------------------------------------------------------------

EmptyStore == [ k \in {} |-> 0 ]

Init ==
    /\ deployments = EmptyStore /\ cms = EmptyStore /\ pods = EmptyStore
    /\ podQ = << >>
    /\ sgPc = "idle" /\ sgRun = SGIdle
    /\ podPc = "idle" /\ podRun = PodIdle

Next ==
    \/ \E sg \in ServiceGroups : onAdd(sg)
    \/ onAdd_createConfigMap
    \/ \E oldObj, newObj \in ServiceGroups : onUpdate(oldObj, newObj)
    \/ \E sg \in ServiceGroups : onDelete(sg)
    \/ onPodAdd
    \/ onPodUpdate
    \/ onPodDelete
    \/ writeLeaderIP_update
    \/ \E g \in Groups, p \in PodNames : DeploymentCreatesPod(g, p)
    \/ \E p \in PodNames : OtherPodRuns(p)
    \/ \E p \in PodNames : PodRuns(p)
    \/ \E p \in PodNames : PodFails(p)
    \/ \E p \in PodNames : PodDeleted(p)
    \/ \E p \in PodNames : PodResync(p)
    \/ \E key \in DOMAIN cms : GarbageCollect(key)

Spec == Init /\ [][Next]_vars

----------------------------------------------------------------------------
(* What the claims speak of.                                               *)

GroupOf(pod) == Label(pod, "service-group")
RecordKey(g) == ConfigMapKey(configMapName(g))
HasRecord(g) == RecordKey(g) \in DOMAIN cms
Leader(g) == cms[RecordKey(g)].Data[peerFile]
HasWorkloadSet(g) == DeploymentKey(NamespaceDefault, g) \in DOMAIN deployments
RunningOf(g) == { p \in DOMAIN pods : pods[p].Phase = PodRunning /\ GroupOf(pods[p]) = g }
RunningAt(ip) == { p \in DOMAIN pods : pods[p].Phase = PodRunning /\ pods[p].PodIP = ip }

\* The loop has run handler h from its event to its return with nothing else
\* happening meanwhile or since: the cluster is as the handler left it, and
\* but for the handler's own write as the handler found it.
PodDone(h) == podPc = "idle" /\ podRun.handler = h
SGDone(h) == sgPc = "idle" /\ sgRun.handler = h

\* C1.  Failover: the record held A, the instance at A was deleted and its
\* onPodDelete has returned (no API call failed, the group's WorkloadSet and
\* record are in place), another instance of the group is Running: then the
\* record holds the address of a Running instance of the group.
C1_Failover ==
    LET g == GroupOf(podRun.ev)
    IN  ( /\ PodDone("onPodDelete") /\ ~podRun.fault
          /\ podRun.cur # "" /\ podRun.ev.PodIP = podRun.cur
          /\ HasWorkloadSet(g) /\ HasRecord(g)
          /\ RunningOf(g) # {} )
        => Leader(g) \in { pods[p].PodIP : p \in RunningOf(g) }

\* C2.  The deleted instance was the leader and no pod is Running: onPodDelete
\* returns, it does not end the process.
C2_EmptyListReturns ==
    ( /\ podRun.handler = "onPodDelete"
      /\ podRun.cur # "" /\ podRun.ev.PodIP = podRun.cur
      /\ Len(ListRunning) = 0 )
    => podPc # "panic"

\* C3.  After onAdd of a valid spec, none of whose API calls failed for a
\* reason outside the cluster's state and which created the WorkloadSet, the
\* group has its WorkloadSet and its record, and the record's leader address
\* is empty.
C3_CreatedWithEmptyLeader ==
    LET g == sgRun.ev.Name
    IN  ( /\ SGDone("onAdd") /\ validateCustomObject(sgRun.ev)
          /\ ~sgRun.fault /\ sgRun.uid # 0 )
        => HasWorkloadSet(g) /\ HasRecord(g) /\ Leader(g) = ""

\* C4.  After onDelete of a group, none of whose API calls failed for a reason
\* outside the cluster's state, no WorkloadSet made for that group (whatever
\* the group's namespace) exists.
C4_DeleteRemovesWorkloadSet ==
    LET g == sgRun.ev.Name
    IN  ( SGDone("onDelete") /\ ~sgRun.fault )
        => ~( HasWorkloadSet(g)
              /\ deployments[DeploymentKey(NamespaceDefault, g)].For = sgRun.ev.Namespace )

\* C5 as claimed.  A record, once there, stays: neither onDelete nor the
\* garbage collection that follows the WorkloadSet's deletion removes it.
C5_RecordNeverRemoved ==
    [][ \A key \in DOMAIN cms : key \in DOMAIN cms' ]_vars

\* C5 as amended.  onDelete itself leaves every record as it is; a record is
\* removed only by the garbage collection, once no WorkloadSet with the
\* identity of its owner reference exists.
C5_DeleteLeavesRecordToGC ==
    [][ /\ (\E sg \in ServiceGroups : onDelete(sg)) => cms' = cms
        /\ \A key \in DOMAIN cms \ DOMAIN cms' :
             LET owner == cms[key].OwnerReferences[1]
                 dkey == DeploymentKey(NamespaceDefault, owner.Name)
             IN  ~(dkey \in DOMAIN deployments /\ deployments[dkey].UID = owner.UID)
      ]_vars

\* onDelete has deleted the WorkloadSet of a group whose record names a leader.
C5_Witness ==
    /\ SGDone("onDelete") /\ sgRun.res = "deleted"
    /\ HasRecord(sgRun.ev.Name) /\ Leader(sgRun.ev.Name) # ""

\* C6.  onAdd of a spec that fails validation changes nothing in the cluster
\* and returns.
C6_InvalidSpecMutatesNothing ==
    [][ \A sg \in ServiceGroups :
          (onAdd(sg) /\ ~validateCustomObject(sg)) => (UNCHANGED cluster /\ sgPc' = "idle")
      ]_vars

\* onAdd has returned for a spec with replica count 0.
C6_Witness ==
    SGDone("onAdd") /\ sgRun.ev.Count = 0 /\ sgRun.res = "invalid"

\* C7.  Leader stability: the record held a, an instance at a is Running, and
\* onPodUpdate has handled the Running event of an instance at another
\* address: it issued no update and the record still holds a.
C7_LeaderStability ==
    LET g == GroupOf(podRun.ev)
    IN  ( /\ PodDone("onPodUpdate") /\ podRun.ev.Phase = PodRunning
          /\ podRun.cur # "" /\ podRun.ev.PodIP # podRun.cur
          /\ RunningAt(podRun.cur) # {} )
        => podRun.uid = 0 /\ HasRecord(g) /\ Leader(g) = podRun.cur

\* A Running event for another instance was a no-op: the leader is alive.
C7_Witness ==
    /\ PodDone("onPodUpdate") /\ podRun.res = "alive"
    /\ podRun.ev.PodIP # podRun.cur /\ Leader(GroupOf(podRun.ev)) = podRun.cur

\* C8 as claimed.  The record held an address no Running instance has, and
\* onPodUpdate has handled the Running event of another instance of the group
\* (no API call failed for a reason outside the cluster's state): the record
\* holds that instance's address.
C8_ReelectionAlways ==
    LET g == GroupOf(podRun.ev)
    IN  ( /\ PodDone("onPodUpdate") /\ podRun.ev.Phase = PodRunning /\ ~podRun.fault
          /\ podRun.cur # "" /\ podRun.ev.PodIP # podRun.cur
          /\ RunningAt(podRun.cur) = {} )
        => HasRecord(g) /\ Leader(g) = podRun.ev.PodIP

\* C8 as amended: the same while the group's WorkloadSet exists.
C8_ReelectionWithWorkloadSet ==
    LET g == GroupOf(podRun.ev)
    IN  ( /\ PodDone("onPodUpdate") /\ podRun.ev.Phase = PodRunning /\ ~podRun.fault
          /\ podRun.cur # "" /\ podRun.ev.PodIP # podRun.cur
          /\ RunningAt(podRun.cur) = {}
          /\ HasWorkloadSet(g) )
        => HasRecord(g) /\ Leader(g) = podRun.ev.PodIP

\* A Running event has replaced a leader that no longer runs.
C8_Witness ==
    /\ PodDone("onPodUpdate") /\ podRun.res = "wrote"
    /\ podRun.cur # "" /\ RunningAt(podRun.cur) = {}
    /\ Leader(GroupOf(podRun.ev)) = podRun.ev.PodIP

\* C9.  Idempotence: a Running event for the instance whose address the record
\* holds issues no update and leaves the record; and the second of two equal
\* Running events handled in a row, with nothing happening between them and
\* no API failure in the first, issues no update.
C9_Idempotence ==
    LET g == GroupOf(podRun.ev)
    IN  /\ ( /\ PodDone("onPodUpdate") /\ podRun.ev.Phase = PodRunning
             /\ podRun.cur # "" /\ podRun.ev.PodIP = podRun.cur )
           => podRun.uid = 0 /\ HasRecord(g) /\ Leader(g) = podRun.cur
        /\ ( /\ PodDone("onPodUpdate") /\ podRun.ev.Phase = PodRunning
             /\ podRun.prev.handler = "onPodUpdate" /\ podRun.prev.ev = podRun.ev )
           => podRun.uid = 0 /\ podRun.res # "wrote"

\* The event that made its instance the leader was delivered once more.
C9_Witness ==
    /\ PodDone("onPodUpdate") /\ podRun.res = "same"
    /\ podRun.prev.handler = "onPodUpdate" /\ podRun.prev.ev = podRun.ev
    /\ podRun.prev.res = "wrote"

\* C10.  I2: whenever a write puts a non-empty address in a record, a pod with
\* that address is Running at that moment.
C10_WrittenLeaderIsRunning ==
    [][ \A key \in DOMAIN cms' :
          ( /\ cms'[key].Data[peerFile] # ""
            /\ (key \notin DOMAIN cms \/ cms[key] # cms'[key]) )
          => RunningAt(cms'[key].Data[peerFile]) # {}
      ]_vars

\* C11.  I3: whenever a group's WorkloadSet exists and no onAdd is between its
\* two creates, the group's record exists.
C11_RecordExistsWithWorkloadSet ==
    \A g \in Groups : (HasWorkloadSet(g) /\ sgPc = "idle") => HasRecord(g)

\* An election has passed its checks and has not written yet, and the Running
\* event of another instance of the same group waits in the queue.
SecondElectionWaits ==
    /\ podPc = "update" /\ podQ # << >>
    /\ Head(podQ).type = "Updated" /\ Head(podQ).obj.Phase = PodRunning
    /\ GroupOf(Head(podQ).obj) = GroupOf(podRun.pod)
    /\ Head(podQ).obj.PodIP # podRun.pod.PodIP

\* C12 as claimed.  The second decision need not wait for the first one's
\* write: with an election between its liveness check and its write, the
\* Running event of another instance of the group can be handled.
C12_SecondElectionMayStart ==
    SecondElectionWaits => ENABLED onPodUpdate

\* C12 as amended.  Elections do not overlap: while an election is between
\* its checks and its write, no handler of the Pod loop can start.
C12_ElectionsDoNotOverlap ==
    podPc = "update"
      => ~(ENABLED onPodAdd) /\ ~(ENABLED onPodUpdate) /\ ~(ENABLED onPodDelete)

C12_Witness == SecondElectionWaits

\* C13.  Deleting an instance that is not the leader is a no-op: when the
\* deleted instance's address differs from the leader onPodDelete read, or
\* the instance never had an address, the handler returns without an election
\* (it reaches no update and does not end the process).
C13_NonLeaderDeleteIsNoOp ==
    ( /\ podRun.handler = "onPodDelete"
      /\ (podRun.ev.PodIP # podRun.cur \/ podRun.ev.PodIP = "") )
    => podPc = "idle" /\ podRun.uid = 0

\* C14.  onUpdate applies no mutation: the step of onUpdate leaves every
\* WorkloadSet, record and pod as it was, whatever the old and the new spec.
C14_UpdateMutatesNothing ==
    [][ \A oldObj, newObj \in ServiceGroups :
          onUpdate(oldObj, newObj) => UNCHANGED cluster
      ]_vars

\* onUpdate has returned for a spec whose count differs from the replicas of
\* the group's WorkloadSet, and the group has its record.
C14_Witness ==
    /\ SGDone("onUpdate") /\ sgRun.res = "logged"
    /\ HasWorkloadSet(sgRun.ev.Name) /\ HasRecord(sgRun.ev.Name)
    /\ deployments[DeploymentKey(NamespaceDefault, sgRun.ev.Name)].Replicas # sgRun.ev.Count

\* The addresses pods can have.
Addresses == { PodIP(p) : p \in PodNames }

\* C15.  I1: after every step a record holds, under its one key, the empty
\* address or one address; and a step that puts a non-empty address in the
\* record of a group is the write of an election for a pod labelled with that
\* group, the pod of the handled event or the one taken from the list of
\* Running pods, and the address is that pod's.
C15_AtMostOneLeader ==
    [][ \A g \in Groups :
          HasRecord(g)' =>
            /\ DOMAIN cms'[RecordKey(g)].Data = {peerFile}
            /\ Leader(g)' \in {""} \cup Addresses
            /\ ( /\ Leader(g)' # ""
                 /\ (~HasRecord(g) \/ Leader(g) # Leader(g)') )
               => /\ podPc = "update"
                  /\ GroupOf(podRun.pod) = g
                  /\ podRun.pod.PodIP = Leader(g)'
      ]_vars

\* A failover has replaced the deleted leader's address by the address of the
\* pod taken from the list of Running pods.
C15_Witness ==
    /\ PodDone("onPodDelete") /\ podRun.res = "wrote" /\ podRun.cur # ""
    /\ Leader(GroupOf(podRun.new)) = podRun.new.PodIP
    /\ podRun.new.PodIP # podRun.cur

\* C16.  Creation ordering and partial failure.  The step of onAdd that
\* creates the WorkloadSet touches no record, and when it creates nothing the
\* handler returns.  The step that creates the record is taken with the
\* WorkloadSet onAdd created in place; it leaves every WorkloadSet, returns,
\* and either adds the group's record, with the empty address, where none was,
\* or leaves all records as they were.
C16_CreationOrderAndPartialFailure ==
    [][ /\ \A sg \in ServiceGroups :
             onAdd(sg) => /\ cms' = cms
                          /\ (deployments' = deployments) => (sgPc' = "idle")
        /\ onAdd_createConfigMap
             => LET g == sgRun.ev.Name
                IN  /\ HasWorkloadSet(g)
                    /\ deployments[DeploymentKey(NamespaceDefault, g)].UID = sgRun.uid
                    /\ deployments' = deployments
                    /\ sgPc' = "idle"
                    /\ IF HasRecord(g)
                       THEN cms' = cms
                       ELSE cms' \in { cms, Put(cms, RecordKey(g), newConfigMap(g, sgRun.uid, "")) }
      ]_vars

\* onAdd created the WorkloadSet and then met a record of that name, which
\* names a leader: the handler has returned, both are in place.
C16_Witness ==
    /\ SGDone("onAdd") /\ sgRun.res = "error" /\ ~sgRun.fault /\ sgRun.uid # 0
    /\ HasWorkloadSet(sgRun.ev.Name)
    /\ deployments[DeploymentKey(NamespaceDefault, sgRun.ev.Name)].UID = sgRun.uid
    /\ HasRecord(sgRun.ev.Name) /\ Leader(sgRun.ev.Name) # ""

\* The handled event finds no record of its pod's group.
RecordNotFound ==
    LET pod == Head(podQ).obj
    IN  /\ "service-group" \in DOMAIN pod.Labels
        /\ ~HasRecord(GroupOf(pod))

\* onPodUpdate's election comes to Deployments.Get and the group has no
\* WorkloadSet.
WorkloadSetNotFound ==
    LET pod == Head(podQ).obj
        g == GroupOf(pod)
    IN  /\ pod.Phase = PodRunning /\ HasRecord(g)
        /\ Leader(g) # pod.PodIP
        /\ (Leader(g) = "" \/ RunningAt(Leader(g)) = {})
        /\ ~HasWorkloadSet(g)

\* C17.  State unchanged on error: the steps in which onPodUpdate and
\* onPodDelete read the cluster write no record and take the event off the
\* queue; and when a read fails (an API error, the record not found, the
\* WorkloadSet not found) the handler returns with that error and goes on to
\* no write.
C17_ErrorLeavesRecord ==
    [][ /\ (onPodUpdate \/ onPodDelete)
             => /\ cms' = cms
                /\ podQ' = Tail(podQ)
                /\ (podRun'.fault \/ RecordNotFound)
                     => (podPc' = "idle" /\ podRun'.res \in {"error", "ignored"})
        /\ (onPodUpdate /\ ~podRun'.fault /\ WorkloadSetNotFound)
             => (podPc' = "idle" /\ podRun'.res = "error")
      ]_vars

\* A Running event of a deleted group's pod: the dead leader is not replaced,
\* Deployments.Get found nothing.
C17_Witness ==
    LET g == GroupOf(podRun.ev)
    IN  /\ PodDone("onPodUpdate") /\ podRun.res = "error" /\ ~podRun.fault
        /\ podRun.cur # "" /\ podRun.ev.PodIP # podRun.cur
        /\ HasRecord(g) /\ Leader(g) = podRun.cur
        /\ RunningAt(podRun.cur) = {} /\ ~HasWorkloadSet(g)

----------------------------------------------------------------------------
(* Two groups side by side: the groups are created and their pods start,  *)
(* run and are deleted.                                                    *)

TwoGroups == {"db", "web"}
TwoServiceGroups == [ Name : TwoGroups, Namespace : {NamespaceDefault}, Count : {MaxCount} ]

NextTwoGroups ==
    \/ \E sg \in TwoServiceGroups : onAdd(sg)
    \/ onAdd_createConfigMap
    \/ onPodAdd
    \/ onPodUpdate
    \/ onPodDelete
    \/ writeLeaderIP_update
    \/ \E g \in TwoGroups, p \in PodNames : DeploymentCreatesPod(g, p)
    \/ \E p \in PodNames : OtherPodRuns(p)
    \/ \E p \in PodNames : PodRuns(p)
    \/ \E p \in PodNames : PodFails(p)
    \/ \E p \in PodNames : PodDeleted(p)

SpecTwoGroups == Init /\ [][NextTwoGroups]_vars

\* C18.  Group isolation of failover: when onPodDelete has handled the
\* deletion of a group's leader and its election wrote a record, the pod it
\* made leader is a pod of the deleted pod's group and the record written is
\* that group's.
C18_FailoverStaysInGroup ==
    ( /\ PodDone("onPodDelete") /\ podRun.res = "wrote"
      /\ podRun.cur # "" /\ podRun.ev.PodIP = podRun.cur )
    => /\ GroupOf(podRun.new) = GroupOf(podRun.ev)
       /\ Leader(GroupOf(podRun.ev)) = podRun.new.PodIP

\* C19.  Owner reference tracks the live WorkloadSet: whenever a group has
\* both its record and its WorkloadSet, and no onAdd is between its two
\* creates, the record's owner reference carries that WorkloadSet's identity.
C19_OwnerIsLiveWorkloadSet ==
    \A g \in Groups :
        (HasRecord(g) /\ HasWorkloadSet(g) /\ sgPc = "idle")
        => cms[RecordKey(g)].OwnerReferences[1].UID
             = deployments[DeploymentKey(NamespaceDefault, g)].UID

\* C20.  No leader write after group deletion: a step that modifies the
\* record of a group (the write of an election) is taken while the group's
\* WorkloadSet exists.
C20_NoWriteAfterDeletion ==
    [][ \A g \in Groups :
          ( /\ HasRecord(g) /\ HasRecord(g)'
            /\ cms[RecordKey(g)] # cms'[RecordKey(g)] )
          => HasWorkloadSet(g)
      ]_vars

----------------------------------------------------------------------------
(* The controller with an API that does not fail, under fair scheduling:   *)
(* the Pod informer goes on calling its handlers and the resync goes on    *)
(* redelivering every cached pod.                                          *)

\* The write of a handler takes effect whenever the cluster's state allows
\* it: ConfigMaps.Update when the record exists, ConfigMaps.Create when it
\* does not.
WritesSucceed ==
    /\ writeLeaderIP_update
         => LET g == GroupOf(podRun.pod)
            IN  HasRecord(g)
                  => cms' = Put(cms, RecordKey(g), newConfigMap(g, podRun.uid, podRun.pod.PodIP))
    /\ onAdd_createConfigMap
         => (~HasRecord(sgRun.ev.Name) => HasRecord(sgRun.ev.Name)')

\* The steps of the system but for onUpdate, which only logs.
NextLive ==
    \/ \E sg \in ServiceGroups : onAdd(sg)
    \/ onAdd_createConfigMap
    \/ \E sg \in ServiceGroups : onDelete(sg)
    \/ onPodAdd
    \/ onPodUpdate
    \/ onPodDelete
    \/ writeLeaderIP_update
    \/ \E g \in Groups, p \in PodNames : DeploymentCreatesPod(g, p)
    \/ \E p \in PodNames : OtherPodRuns(p)
    \/ \E p \in PodNames : PodRuns(p)
    \/ \E p \in PodNames : PodFails(p)
    \/ \E p \in PodNames : PodDeleted(p)
    \/ \E p \in PodNames : PodResync(p)
    \/ \E key \in DOMAIN cms : GarbageCollect(key)

\* A step in which no API call fails for a reason outside the cluster's state.
NoFaultNext == NextLive /\ ~podRun'.fault /\ ~sgRun'.fault /\ WritesSucceed

Fairness ==
    /\ WF_vars(onPodAdd)
    /\ WF_vars(onPodUpdate)
    /\ WF_vars(onPodDelete)
    /\ WF_vars(writeLeaderIP_update)
    /\ \A p \in PodNames : SF_vars(PodResync(p))

FairSpec == Init /\ [][NoFaultNext]_vars /\ Fairness

\* C21.  Eventual live leader: if from some point on the group's WorkloadSet
\* and record exist, an instance of the group stays Running and the pods no
\* longer change, then from some point on the record's leader address is the
\* address of a Running instance of the group.
C21_EventualLiveLeader ==
    \A g \in Groups : \A p \in PodNames :
        ( /\ <>[](HasWorkloadSet(g) /\ HasRecord(g) /\ p \in RunningOf(g))
          /\ <>[][pods' = pods]_vars )
        => <>[](HasRecord(g) /\ Leader(g) \in { pods[q].PodIP : q \in RunningOf(g) })

====
